---- MODULE Spec2Model ----
(***************************************************************************)
(* Model of py3status/modules/mpd_status.py:                               *)
(*   - parse_template, the recursive mpc-like template renderer, as a      *)
(*     step machine over the shared character iterator with an explicit    *)
(*     stack of invocations;                                               *)
(*   - song_attr, the attribute resolver;                                  *)
(*   - Py3status.current_track, the caller that truncates and caches.      *)
(* A text is a sequence of one-character strings; the control characters   *)
(* produced by backslash escapes are the tokens BEL, BS, TAB, LF, VT, FF,  *)
(* CR.                                                                     *)
(***************************************************************************)
EXTENDS Integers, Sequences, FiniteSets, TLC

VARIABLES
    instr,      \* parse_template: the template, the iterator's underlying text
    resolve,    \* parse_template: the value_getter, a map from keys to texts
    pos,        \* parse_template: characters consumed from the shared iterator
    stack,      \* parse_template: the active invocations, innermost last
    pc,         \* parse_template: "run", "ret" (a call just returned), "done",
                \* "error" (an exception left the top-level call)
    via,        \* parse_template: the call site the last return goes back to
    retval,     \* parse_template: the (text, found) pair last returned
    ret_by,     \* parse_template: the return statement last executed
    result,     \* parse_template: what the top-level call returned
    song,       \* song_attr: the song record
    attr,       \* song_attr: the field name
    attr_out,   \* song_attr: the outcome, a return or a raised exception
    self_text,  \* Py3status.text
    max_width,  \* Py3status.max_width
    hide_when_paused,   \* Py3status.hide_when_paused
    hide_when_stopped,  \* Py3status.hide_when_stopped
    text,       \* current_track: the local text before it is truncated
    response,   \* current_track: the response last returned
    calls       \* current_track: number of calls made

pvars == <<instr, resolve, pos, stack, pc, via, retval, ret_by, result>>
avars == <<song, attr, attr_out>>
tvars == <<self_text, max_width, hide_when_paused, hide_when_stopped, text, response, calls>>
vars == <<pvars, avars, tvars>>

-----------------------------------------------------------------------------
(* Bounds *)

\* longest enumerated template
MaxLen == 3

\* nested invocations of parse_template the interpreter allows: stands for the
\* room sys.getrecursionlimit() (1000 by default) leaves on the call stack
RecursionLimit == 8

(* Helpers on sequences and integers *)

SeqsUpTo(S, n) == UNION {[1..k -> S] : k \in 0..n}

MinOf(S) == CHOOSE m \in S : \A k \in S : m <= k

Front(s) == SubSeq(s, 1, Len(s) - 1)

Count(s, C) == Cardinality({i \in 1..Len(s) : s[i] \in C})

-----------------------------------------------------------------------------
(* parse_template *)

\* the characters the loop of lines 65-108 has a branch for
Markers == {"%", "{", "#", "\\", "[", "]", "|", "&"}

\* "}" ends a {-placeholder and is an ordinary character anywhere else
Specials == Markers \cup {"}"}

Alphabet == Specials \cup {"a", "x"}

EscapeLetters == {"a", "b", "t", "n", "v", "f", "r"}

\* ast.literal_eval('"\\{}"'.format(ln)) for ln in 'abtnvfr'
ControlChar(ln) ==
    CASE ln = "a" -> "BEL"
      [] ln = "b" -> "BS"
      [] ln = "t" -> "TAB"
      [] ln = "n" -> "LF"
      [] ln = "v" -> "VT"
      [] ln = "f" -> "FF"
      [] ln = "r" -> "CR"

\* value_getter(key): a total resolver; a key it does not know is empty
value_getter(key) == IF key \in DOMAIN resolve THEN resolve[key] ELSE <<>>

NoReturn == [text |-> <<>>, found |-> FALSE]

\* a fresh invocation: ret = [], found as passed; met and last record whether
\* the scope met an operator and the outcome of its last placeholder or group
Frame(found, site) ==
    [ret |-> <<>>, found |-> found, site |-> site, met |-> FALSE, last |-> found]

Top == stack[Len(stack)]

SetTop(f) == [stack EXCEPT ![Len(stack)] = f]

\* the loop "for char in instr" has a next character
Running == pc = "run" /\ stack # <<>> /\ pos < Len(instr)

Char == instr[pos + 1]

\* index of the first endchar at or after i, or one past the end
EndIndex(endchar, i) ==
    LET S == {j \in i..Len(instr) : instr[j] = endchar}
    IN  IF S = {} THEN Len(instr) + 1 ELSE MinOf(S)

\* next(instr, default) after the current character has been consumed
NextOr(default) == IF pos + 2 <= Len(instr) THEN instr[pos + 2] ELSE default

PosAfterNext == IF pos + 2 <= Len(instr) THEN pos + 2 ELSE pos + 1

PlaceholderFoundSticky(f, value) ==
    IF value # <<>>
    THEN [f EXCEPT !.found = TRUE, !.ret = @ \o value, !.last = TRUE]
    ELSE [f EXCEPT !.last = FALSE]

\* lines 70-74: a non-empty value is appended and sets found, an empty one clears it
PlaceholderFound(f, value) ==
    IF value # <<>>
    THEN [f EXCEPT !.found = TRUE, !.ret = @ \o value, !.last = TRUE]
    ELSE [f EXCEPT !.found = FALSE, !.last = FALSE]

PlaceholderStep ==
    /\ Running
    /\ Char \in {"%", "{"}
    /\ LET endchar == IF Char = "%" THEN "%" ELSE "}"
           j == EndIndex(endchar, pos + 2)
           key == SubSeq(instr, pos + 2, j - 1)
       IN  /\ pos' = IF j > Len(instr) THEN Len(instr) ELSE j
           /\ stack' = SetTop(PlaceholderFound(Top, value_getter(key)))
    /\ UNCHANGED <<instr, resolve, pc, via, retval, ret_by, result>>
    /\ UNCHANGED <<avars, tvars>>

\* lines 75-76
HashStep ==
    /\ Running
    /\ Char = "#"
    /\ stack' = SetTop([Top EXCEPT !.ret = Append(@, NextOr("#"))])
    /\ pos' = PosAfterNext
    /\ UNCHANGED <<instr, resolve, pc, via, retval, ret_by, result>>
    /\ UNCHANGED <<avars, tvars>>

\* lines 77-82
BackslashStep ==
    /\ Running
    /\ Char = "\\"
    /\ LET ln == NextOr("\\")
       IN  stack' = SetTop([Top EXCEPT !.ret =
                        Append(@, IF ln \in EscapeLetters THEN ControlChar(ln) ELSE ln)])
    /\ pos' = PosAfterNext
    /\ UNCHANGED <<instr, resolve, pc, via, retval, ret_by, result>>
    /\ UNCHANGED <<avars, tvars>>

\* lines 109-110
LiteralStep ==
    /\ Running
    /\ Char \notin Markers
    /\ stack' = SetTop([Top EXCEPT !.ret = Append(@, Char)])
    /\ pos' = pos + 1
    /\ UNCHANGED <<instr, resolve, pc, via, retval, ret_by, result>>
    /\ UNCHANGED <<avars, tvars>>

\* the call of lines 84, 94, 103 when the interpreter's call stack is full:
\* RecursionError, which no invocation catches
Overflow ==
    /\ stack' = <<>>
    /\ pc' = "error"

\* the state of the caller c at the call and the new invocation
Enter(c, site) ==
    IF Len(stack) < RecursionLimit
    THEN stack' = Append(SetTop(c), Frame(c.found, site)) /\ pc' = pc
    ELSE Overflow

OpenStepNoConsume ==
    /\ Running
    /\ Char = "["
    /\ Enter(Top, "[")
    /\ UNCHANGED <<instr, resolve, pos, via, retval, ret_by, result>>
    /\ UNCHANGED <<avars, tvars>>

\* lines 83-84, the call
OpenStep ==
    /\ Running
    /\ Char = "["
    /\ Enter(Top, "[")
    /\ pos' = pos + 1
    /\ UNCHANGED <<instr, resolve, via, retval, ret_by, result>>
    /\ UNCHANGED <<avars, tvars>>

\* lines 93-94, the call
OrStep ==
    /\ Running
    /\ Char = "|"
    /\ Enter([Top EXCEPT !.met = TRUE], "|")
    /\ pos' = pos + 1
    /\ UNCHANGED <<instr, resolve, via, retval, ret_by, result>>
    /\ UNCHANGED <<avars, tvars>>

\* lines 102-103, the call
AndStep ==
    /\ Running
    /\ Char = "&"
    /\ Enter([Top EXCEPT !.met = TRUE], "&")
    /\ pos' = pos + 1
    /\ UNCHANGED <<instr, resolve, via, retval, ret_by, result>>
    /\ UNCHANGED <<avars, tvars>>

\* the innermost invocation returns v by the return statement named by
Return(v, by) ==
    /\ retval' = v
    /\ ret_by' = by
    /\ via' = Top.site
    /\ stack' = Front(stack)
    /\ pc' = "ret"

CloseResultKeep(f) == [text |-> f.ret, found |-> f.found]

\* lines 87-92
CloseResult(f) ==
    IF f.found THEN [text |-> f.ret, found |-> TRUE] ELSE [text |-> <<>>, found |-> FALSE]

CloseStep ==
    /\ Running
    /\ Char = "]"
    /\ pos' = pos + 1
    /\ Return(CloseResult(Top), "]")
    /\ UNCHANGED <<instr, resolve, result>>
    /\ UNCHANGED <<avars, tvars>>

\* lines 112-113
EndResult(f) == [text |-> f.ret, found |-> f.found]

EndStep ==
    /\ pc = "run"
    /\ stack # <<>>
    /\ pos = Len(instr)
    /\ Return(EndResult(Top), "eof")
    /\ UNCHANGED <<instr, resolve, pos, result>>
    /\ UNCHANGED <<avars, tvars>>

\* the caller of the top-level invocation receives the pair
RetTop ==
    /\ pc = "ret"
    /\ via = "top"
    /\ result' = retval
    /\ pc' = "done"
    /\ UNCHANGED <<instr, resolve, pos, stack, via, retval, ret_by>>
    /\ UNCHANGED <<avars, tvars>>

BracketAfterKeepFound(f, sub) ==
    [f EXCEPT !.ret = @ \o sub.text, !.last = sub.found]

\* lines 84-86: subret, found = parse_template(...); ret.append(subret)
BracketAfter(f, sub) ==
    [f EXCEPT !.ret = @ \o sub.text, !.found = sub.found, !.last = sub.found]

RetBracket ==
    /\ pc = "ret"
    /\ via = "["
    /\ stack' = SetTop(BracketAfter(Top, retval))
    /\ pc' = "run"
    /\ UNCHANGED <<instr, resolve, pos, via, retval, ret_by, result>>
    /\ UNCHANGED <<avars, tvars>>

OrAfterAlways(f, sub) ==
    IF sub.found
    THEN [returns |-> FALSE, frame |-> [f EXCEPT !.ret = @ \o sub.text, !.found = TRUE]]
    ELSE IF f.found THEN [returns |-> FALSE, frame |-> f]
    ELSE [returns |-> TRUE, frame |-> f]

\* lines 95-101: what the scope does with the alternative's result
OrAfter(f, sub) ==
    IF f.found THEN [returns |-> FALSE, frame |-> f]
    ELSE IF sub.found
    THEN [returns |-> FALSE, frame |-> [f EXCEPT !.ret = @ \o sub.text, !.found = TRUE]]
    ELSE [returns |-> TRUE, frame |-> f]

AndAfterEither(f, sub) ==
    IF f.found \/ sub.found
    THEN [returns |-> FALSE, frame |-> [f EXCEPT !.ret = @ \o sub.text]]
    ELSE [returns |-> TRUE, frame |-> f]

\* lines 104-108
AndAfter(f, sub) ==
    IF f.found /\ sub.found
    THEN [returns |-> FALSE, frame |-> [f EXCEPT !.ret = @ \o sub.text]]
    ELSE [returns |-> TRUE, frame |-> f]

\* the scope carries on with frame r.frame, or returns ('', False) at once
Resume(r) ==
    IF r.returns
    THEN Return(NoReturn, "poison")
    ELSE /\ stack' = SetTop(r.frame)
         /\ pc' = "run"
         /\ UNCHANGED <<via, retval, ret_by>>

RetOr ==
    /\ pc = "ret"
    /\ via = "|"
    /\ Resume(OrAfter(Top, retval))
    /\ UNCHANGED <<instr, resolve, pos, result>>
    /\ UNCHANGED <<avars, tvars>>

RetAnd ==
    /\ pc = "ret"
    /\ via = "&"
    /\ Resume(AndAfter(Top, retval))
    /\ UNCHANGED <<instr, resolve, pos, result>>
    /\ UNCHANGED <<avars, tvars>>

ParseNext ==
    \/ PlaceholderStep
    \/ HashStep
    \/ BackslashStep
    \/ LiteralStep
    \/ OpenStep
    \/ OrStep
    \/ AndStep
    \/ CloseStep
    \/ EndStep
    \/ RetTop
    \/ RetBracket
    \/ RetOr
    \/ RetAnd

-----------------------------------------------------------------------------
(* The renders checked: every template of at most MaxLen characters over   *)
(* Alphabet with every resolver of the keys a and x, and the templates of  *)
(* the module's documentation and of the rendering examples.               *)

EnumResolvers == [{<<"a">>, <<"x">>} -> {<<>>, <<"1">>}]

EnumCases == {[t |-> t, r |-> r] : t \in SeqsUpTo(Alphabet, MaxLen), r \in EnumResolvers}

KeyState == <<"s", "t", "a", "t", "e">>

KeyArtist == <<"a", "r", "t", "i", "s", "t">>

KeyTitle == <<"t", "i", "t", "l", "e">>

KeyFile == <<"f", "i", "l", "e">>

KeyMissing == <<"m", "i", "s", "s", "i", "n", "g">>

KeyPresent == <<"p", "r", "e", "s", "e", "n", "t">>

\* docstring, line 37
DocFormat ==
    <<"%", "s", "t", "a", "t", "e", "%", " ", "[", "[", "[", "%", "a", "r", "t", "i", "s",
      "t", "%", " ", "-", " ", "]", "%", "t", "i", "t", "l", "e", "%", "]", "|", "[", "%",
      "f", "i", "l", "e", "%", "]", "]">>

\* the state labels of lines 158-160 are non-empty texts
StateLabels == {<<"[", "p", "l", "a", "y", "]">>, <<"S">>}

DocResolvers ==
    {[k \in {KeyState, KeyArtist, KeyTitle, KeyFile} |->
        CASE k = KeyState -> s [] k = KeyArtist -> a [] k = KeyTitle -> ti [] k = KeyFile -> f] :
     s \in StateLabels, a \in {<<>>, <<"A">>}, ti \in {<<>>, <<"T", "i">>}, f \in {<<>>, <<"F">>}}

GroupEmptyFormat == <<"[", "%", "f", "%", "]">>

FallbackFormat ==
    <<"[", "%", "m", "i", "s", "s", "i", "n", "g", "%", "]", "|", "[", "%", "p", "r", "e",
      "s", "e", "n", "t", "%", "]">>

ConjFormat == <<"[", "%", "a", "%", "]", "&", "[", "%", "b", "%", "]">>

UnclosedFormat == <<"[", "%", "a", "%">>

SiblingsFormat == <<"%", "a", "%", "%", "b", "%">>

GroupThenFailFormat == <<"[", "x", "|", "x", "]", "%", "a", "%">>

\* as many "[" as the interpreter allows nested invocations
DeepFormat == [i \in 1..RecursionLimit |-> "["]

ExampleCases ==
    {[t |-> DocFormat, r |-> r] : r \in DocResolvers}
    \cup {[t |-> GroupEmptyFormat, r |-> [k \in {<<"f">>} |-> <<>>]]}
    \cup {[t |-> FallbackFormat, r |-> (KeyMissing :> <<>>) @@ (KeyPresent :> <<"X">>)]}
    \cup {[t |-> ConjFormat, r |-> r] : r \in [{<<"a">>, <<"b">>} -> {<<>>, <<"1">>}]}
    \cup {[t |-> UnclosedFormat, r |-> [k \in {<<"a">>} |-> <<"Z">>]]}
    \cup {[t |-> SiblingsFormat, r |-> r] : r \in [{<<"a">>, <<"b">>} -> {<<>>, <<"1">>}]}
    \cup {[t |-> GroupThenFailFormat, r |-> [k \in {<<"a">>} |-> <<>>]]}
    \cup {[t |-> DeepFormat, r |-> [k \in {<<"a">>} |-> <<>>]]}

Cases == EnumCases \cup ExampleCases

ParseInitNotFound(c) ==
    /\ instr = c.t
    /\ resolve = c.r
    /\ pos = 0
    /\ stack = <<Frame(FALSE, "top")>>
    /\ pc = "run"
    /\ via = "top"
    /\ retval = NoReturn
    /\ ret_by = "none"
    /\ result = NoReturn

\* parse_template(instr, value_getter): found defaults to True (line 58)
ParseInit(c) ==
    /\ instr = c.t
    /\ resolve = c.r
    /\ pos = 0
    /\ stack = <<Frame(TRUE, "top")>>
    /\ pc = "run"
    /\ via = "top"
    /\ retval = NoReturn
    /\ ret_by = "none"
    /\ result = NoReturn

ParseIdle ==
    /\ instr = <<>>
    /\ resolve = <<>>
    /\ pos = 0
    /\ stack = <<>>
    /\ pc = "idle"
    /\ via = "top"
    /\ retval = NoReturn
    /\ ret_by = "none"
    /\ result = NoReturn

AttrIdle ==
    /\ song = <<>>
    /\ attr = "none"
    /\ attr_out = [kind |-> "idle", val |-> <<>>]

TrackIdle ==
    /\ self_text = <<>>
    /\ max_width = 0
    /\ hide_when_paused = FALSE
    /\ hide_when_stopped = FALSE
    /\ text = <<>>
    /\ response = [full_text |-> <<>>, transformed |-> FALSE]
    /\ calls = 0

Init == (\E c \in Cases : ParseInit(c)) /\ AttrIdle /\ TrackIdle

Next == ParseNext

Spec == Init /\ [][Next]_vars

\* the interpreter runs the call to completion: no step waits on anything
FairSpec == Init /\ [][Next]_vars /\ WF_vars(Next)

-----------------------------------------------------------------------------
(* song_attr *)

\* longest raw value of the time key
MaxDigits == 3

Digits == {"0", "1", "2", "3", "4", "5", "6", "7", "8", "9"}

DigitVal(c) ==
    CASE c = "0" -> 0 [] c = "1" -> 1 [] c = "2" -> 2 [] c = "3" -> 3 [] c = "4" -> 4
      [] c = "5" -> 5 [] c = "6" -> 6 [] c = "7" -> 7 [] c = "8" -> 8 [] c = "9" -> 9

DigitChar(d) == <<"0", "1", "2", "3", "4", "5", "6", "7", "8", "9">>[d + 1]

RECURSIVE NumVal(_)
\* the value of a run of decimal digits
NumVal(s) == IF s = <<>> THEN 0 ELSE 10 * NumVal(Front(s)) + DigitVal(s[Len(s)])

AllDigits(s) == s # <<>> /\ \A i \in 1..Len(s) : s[i] \in Digits

Unsigned(s) == IF s # <<>> /\ s[1] \in {"+", "-"} THEN Tail(s) ELSE s

\* int(s) of a text raises ValueError unless s is an optionally signed run of digits
IntOk(s) == AllDigits(Unsigned(s))

IntVal(s) == IF s # <<>> /\ s[1] = "-" THEN 0 - NumVal(Unsigned(s)) ELSE NumVal(Unsigned(s))

RECURSIVE ToDec(_)
\* '{:d}'.format(n) for n >= 0
ToDec(n) == IF n < 10 THEN <<DigitChar(n)>> ELSE Append(ToDec(n \div 10), DigitChar(n % 10))

\* '{}'.format(n)
FormatInt(n) == IF n < 0 THEN <<"-">> \o ToDec(0 - n) ELSE ToDec(n)

\* '{:02d}'.format(n) for n >= 0
Format02(n) == IF n < 10 THEN <<"0">> \o ToDec(n) ELSE ToDec(n)

At(s, i) == IF i \in 1..Len(s) THEN s[i] ELSE "EOF"

\* the number of digits of s from index i on
DigitRun(s, i) ==
    LET S == {j \in i..Len(s) : s[j] \notin Digits}
    IN  (IF S = {} THEN Len(s) + 1 ELSE MinOf(S)) - i

LeapYear(y) == (y % 4 = 0 /\ y % 100 # 0) \/ y % 400 = 0

DaysInMonth(y, m) ==
    IF m = 2 THEN (IF LeapYear(y) THEN 29 ELSE 28)
    ELSE IF m \in {4, 6, 9, 11} THEN 30 ELSE 31

\* datetime.strptime(date_str, '%Y-%m-%dT%H:%M:%SZ'): %Y is four digits, the
\* other fields one or two digits in their range (a day may also be a space
\* and a digit), the letters T and Z match in either case, the whole text
\* must match, and the datetime built must exist; otherwise ValueError
parse_mtime(s) ==
    LET iY == 1
        nY == DigitRun(s, iY)
        im == iY + nY + 1
        nm == DigitRun(s, im)
        id == im + nm + 1
        sp == IF At(s, id) = " " THEN 1 ELSE 0
        nd == DigitRun(s, id + sp)
        iH == id + sp + nd + 1
        nH == DigitRun(s, iH)
        iM == iH + nH + 1
        nM == DigitRun(s, iM)
        iS == iM + nM + 1
        nS == DigitRun(s, iS)
        shape ==
            /\ nY = 4 /\ At(s, im - 1) = "-"
            /\ nm \in {1, 2} /\ At(s, id - 1) = "-"
            /\ nd \in {1, 2} /\ sp + nd <= 2 /\ At(s, iH - 1) \in {"T", "t"}
            /\ nH \in {1, 2} /\ At(s, iM - 1) = ":"
            /\ nM \in {1, 2} /\ At(s, iS - 1) = ":"
            /\ nS \in {1, 2} /\ At(s, iS + nS) \in {"Z", "z"}
            /\ Len(s) = iS + nS
        Y == NumVal(SubSeq(s, iY, iY + nY - 1))
        m == NumVal(SubSeq(s, im, im + nm - 1))
        d == NumVal(SubSeq(s, id + sp, id + sp + nd - 1))
        H == NumVal(SubSeq(s, iH, iH + nH - 1))
        M == NumVal(SubSeq(s, iM, iM + nM - 1))
        S == NumVal(SubSeq(s, iS, iS + nS - 1))
    IN  IF /\ shape
           /\ m \in 1..12 /\ d \in 1..31 /\ H \in 0..23 /\ M \in 0..59 /\ S \in 0..61
           /\ Y >= 1 /\ d <= DaysInMonth(Y, m) /\ S <= 59
        THEN [ok |-> TRUE, Y |-> Y, m |-> m, d |-> d, H |-> H, M |-> M, S |-> S]
        ELSE [ok |-> FALSE, Y |-> 0, m |-> 0, d |-> 0, H |-> 0, M |-> 0, S |-> 0]

DaysBeforeMonth(y, m) ==
    LET F[k \in 0..12] == IF k = 0 THEN 0 ELSE F[k - 1] + DaysInMonth(y, k)
    IN  F[m - 1]

\* date.weekday(): Monday is 0
Weekday(y, m, d) ==
    LET p == y - 1
        ordinal == p * 365 + p \div 4 - p \div 100 + p \div 400 + DaysBeforeMonth(y, m) + d
    IN  (ordinal + 6) % 7

DayName(w) ==
    << <<"M", "o", "n">>, <<"T", "u", "e">>, <<"W", "e", "d">>, <<"T", "h", "u">>,
       <<"F", "r", "i">>, <<"S", "a", "t">>, <<"S", "u", "n">> >>[w + 1]

MonthName(m) ==
    << <<"J", "a", "n">>, <<"F", "e", "b">>, <<"M", "a", "r">>, <<"A", "p", "r">>,
       <<"M", "a", "y">>, <<"J", "u", "n">>, <<"J", "u", "l">>, <<"A", "u", "g">>,
       <<"S", "e", "p">>, <<"O", "c", "t">>, <<"N", "o", "v">>, <<"D", "e", "c">> >>[m]

\* strftime('%c') in the C locale: "%a %b %e %H:%M:%S %Y"
StrftimeC(t) ==
    DayName(Weekday(t.Y, t.m, t.d)) \o <<" ">> \o MonthName(t.m) \o <<" ">>
    \o (IF t.d < 10 THEN <<" ">> \o ToDec(t.d) ELSE ToDec(t.d)) \o <<" ">>
    \o Format02(t.H) \o <<":">> \o Format02(t.M) \o <<":">> \o Format02(t.S)
    \o <<" ">> \o ToDec(t.Y)

\* strftime('%x') in the C locale: "%m/%d/%y"
StrftimeX(t) ==
    Format02(t.m) \o <<"/">> \o Format02(t.d) \o <<"/">> \o Format02(t.Y % 100)

Returned(v) == [kind |-> "return", val |-> v]

Raised(exc) == [kind |-> "raise", val |-> exc]

Called == attr_out.kind = "call"

\* lines 120-128
AttrTime ==
    /\ Called
    /\ attr = "time"
    /\ attr_out' =
        IF "time" \in DOMAIN song /\ IntOk(song["time"]) /\ IntVal(song["time"]) > 0
        THEN LET duration == IntVal(song["time"])
             IN  Returned(FormatInt(duration \div 60) \o <<":">> \o Format02(duration % 60))
        ELSE Returned(<<>>)
    /\ UNCHANGED <<song, attr>>
    /\ UNCHANGED <<pvars, tvars>>

\* lines 129-133
AttrPosition ==
    /\ Called
    /\ attr = "position"
    /\ attr_out' =
        IF "pos" \in DOMAIN song /\ IntOk(song["pos"])
        THEN Returned(FormatInt(IntVal(song["pos"]) + 1))
        ELSE Returned(<<>>)
    /\ UNCHANGED <<song, attr>>
    /\ UNCHANGED <<pvars, tvars>>

\* song['last-modified'] raises KeyError, parse_mtime raises ValueError, and
\* neither is caught
MtimeOutcome(directive) ==
    IF "last-modified" \notin DOMAIN song THEN Raised("KeyError")
    ELSE LET t == parse_mtime(song["last-modified"])
         IN  IF ~t.ok THEN Raised("ValueError")
             ELSE Returned(IF directive = "%c" THEN StrftimeC(t) ELSE StrftimeX(t))

\* lines 134-135
AttrMtime ==
    /\ Called
    /\ attr = "mtime"
    /\ attr_out' = MtimeOutcome("%c")
    /\ UNCHANGED <<song, attr>>
    /\ UNCHANGED <<pvars, tvars>>

\* lines 136-137
AttrMdate ==
    /\ Called
    /\ attr = "mdate"
    /\ attr_out' = MtimeOutcome("%x")
    /\ UNCHANGED <<song, attr>>
    /\ UNCHANGED <<pvars, tvars>>

\* line 139
AttrOther ==
    /\ Called
    /\ attr \notin {"time", "position", "mtime", "mdate"}
    /\ attr_out' = Returned(IF attr \in DOMAIN song THEN song[attr] ELSE <<>>)
    /\ UNCHANGED <<song, attr>>
    /\ UNCHANGED <<pvars, tvars>>

AttrNext ==
    \/ AttrTime
    \/ AttrPosition
    \/ AttrMtime
    \/ AttrMdate
    \/ AttrOther

\* raw values of the time key: every text of at most MaxDigits of these characters
TimeTexts == SeqsUpTo({"0", "1", "2", "5", "-", "x"}, MaxDigits)

PosTexts == {<<>>, <<"0">>, <<"4">>, <<"x">>, <<"-", "1">>}

LastModifiedTexts ==
    {<<"2", "0", "1", "5", "-", "0", "1", "-", "0", "2", "T", "0", "3", ":", "0", "4", ":",
       "0", "5", "Z">>,
     <<"2", "0", "1", "6", "-", "2", "-", "2", "9", "t", "3", ":", "4", ":", "5", "z">>,
     <<"2", "0", "1", "5", "-", "0", "2", "-", "3", "0", "T", "0", "3", ":", "0", "4", ":",
       "0", "5", "Z">>,
     <<"2", "0", "1", "5", "-", "0", "1", "-", "0", "2">>,
     <<>>}

\* a song record: any of the keys may be absent
Songs ==
    {[k \in ks |-> CASE k = "time" -> t [] k = "pos" -> p [] k = "last-modified" -> l
                     [] k = "title" -> <<"T">>] :
        ks \in SUBSET {"time", "pos", "last-modified", "title"},
        t \in TimeTexts, p \in PosTexts, l \in LastModifiedTexts}

Attrs == {"time", "position", "mtime", "mdate", "title", "artist"}

AttrInit ==
    /\ song \in Songs
    /\ attr \in Attrs
    /\ attr_out = [kind |-> "call", val |-> <<>>]

InitAttr == ParseIdle /\ AttrInit /\ TrackIdle

SpecAttr == InitAttr /\ [][AttrNext]_vars

-----------------------------------------------------------------------------
(* Py3status.current_track *)

\* largest max_width configured
MaxWidth == 3

\* longest rendered text
MaxText == 4

\* calls of current_track followed
MaxCalls == 2

\* line 213
ConnectFailed ==
    <<"F", "a", "i", "l", "e", "d", " ", "t", "o", " ", "c", "o", "n", "n", "e", "c", "t",
      " ", "t", "o", " ", "m", "p", "d", "!">>

\* line 215
AuthFailed ==
    <<"F", "a", "i", "l", "e", "d", " ", "t", "o", " ", "a", "u", "t", "h", "e", "n", "t",
      "i", "c", "a", "t", "e", " ", "t", "o", " ", "m", "p", "d", "!">>

Ellipsis == <<".", ".", ".">>

\* s[:-n] for n > 0: s without its last n characters
DropLast(s, n) == IF Len(s) > n THEN SubSeq(s, 1, Len(s) - n) ELSE <<>>

\* lines 218-219: text[:-self.max_width - 3] + '...'
Truncate(t, w) == IF Len(t) > w THEN DropLast(t, w + 3) \o Ellipsis ELSE t

\* what parse_template may return for some format and songs
RenderedTexts == SeqsUpTo({"a", "b"}, MaxText)

\* lines 174-242: outcome is how the try block ends, rendered what
\* parse_template returns when it is reached
CurrentTrack(outcome, state, rendered) ==
    /\ calls < MaxCalls
    /\ LET t0 == CASE outcome = "socket.error" -> ConnectFailed
                   [] outcome = "CommandError" -> AuthFailed
                   [] OTHER ->
                        IF \/ (state = "pause" /\ hide_when_paused)
                           \/ (state = "stop" /\ hide_when_stopped)
                        THEN <<>>
                        ELSE rendered
           t1 == Truncate(t0, max_width)
       IN  /\ text' = t0
           /\ self_text' = t1
           /\ response' = [full_text |-> t1, transformed |-> self_text # t1]
    /\ calls' = calls + 1
    /\ UNCHANGED <<max_width, hide_when_paused, hide_when_stopped>>
    /\ UNCHANGED <<pvars, avars>>

TrackNext ==
    \E outcome \in {"ok", "socket.error", "CommandError"},
       state \in {"play", "pause", "stop"},
       rendered \in RenderedTexts :
        CurrentTrack(outcome, state, rendered)

\* line 163 and the configuration parameters of lines 146-160
TrackInit ==
    /\ self_text = <<>>
    /\ max_width \in 1..MaxWidth
    /\ hide_when_paused \in BOOLEAN
    /\ hide_when_stopped \in BOOLEAN
    /\ text = <<>>
    /\ response = [full_text |-> <<>>, transformed |-> FALSE]
    /\ calls = 0

InitTrack == ParseIdle /\ AttrIdle /\ TrackInit

SpecTrack == InitTrack /\ [][TrackNext]_vars

-----------------------------------------------------------------------------
(* Properties of parse_template *)

Done == pc = "done"

Val(key) == value_getter(key)

\* a step in which the innermost invocation returns
Returns == pc' = "ret" /\ Len(stack') < Len(stack)

\* C1 as stated: whenever a scope opened by "[" finishes with found = false,
\* by its "]" or by end of input, nothing is appended to the parent's text
\* and the parent's flag is false after the group; render("[%f%]") with f
\* empty is ("", false).
C1_Original ==
    /\ [](Done /\ instr = GroupEmptyFormat => result = [text |-> <<>>, found |-> FALSE])
    /\ [][pc = "ret" /\ via = "[" /\ ~retval.found
            => Top'.ret = Top.ret /\ ~Top'.found]_vars

\* C1 amended: a scope opened by "[" that finishes with found = false returns
\* the empty text when it ends at a "]" or is given up by a failed "|" or "&",
\* but returns all the text it accumulated when it ends by end of input; the
\* parent appends whatever text is returned and takes the returned flag, so
\* its flag is false right after the group in every case.
C1_GroupNotFound ==
    /\ [](Done /\ instr = GroupEmptyFormat => result = [text |-> <<>>, found |-> FALSE])
    /\ [][/\ (Returns /\ Top.site = "[" /\ ~retval'.found
                => retval'.text = IF ret_by' = "eof" THEN Top.ret ELSE <<>>)
          /\ (pc = "ret" /\ via = "[" /\ ~retval.found
                => Top'.ret = Top.ret \o retval.text /\ ~Top'.found)]_vars

C1_Witness ==
    pc = "ret" /\ via = "[" /\ ~retval.found /\ ret_by = "eof" /\ retval.text # <<>>

\* C2: at every "|" the sub-parse starts on the rest of the stream seeded with
\* the scope's flag L; on its return (T, R): if L the scope's text and flag are
\* unchanged and the stream stays where the sub-parse left it; if ~L and R, T
\* is appended and the flag becomes true; if neither, the scope returns
\* ('', false) at once. render("[%missing%]|[%present%]") is ("X", true).
C2_Alternation ==
    /\ [](Done /\ instr = FallbackFormat /\ Val(KeyMissing) = <<>> /\ Val(KeyPresent) = <<"X">>
            => result = [text |-> <<"X">>, found |-> TRUE])
    /\ [][/\ (Running /\ Char = "|"
                => /\ Len(stack') = Len(stack) + 1
                   /\ Top'.found = Top.found
                   /\ Top'.ret = <<>>
                   /\ pos' = pos + 1)
          /\ (pc = "ret" /\ via = "|" /\ Top.found
                => /\ pc' = "run"
                   /\ Len(stack') = Len(stack)
                   /\ Top'.ret = Top.ret
                   /\ Top'.found
                   /\ pos' = pos)
          /\ (pc = "ret" /\ via = "|" /\ ~Top.found /\ retval.found
                => /\ pc' = "run"
                   /\ Len(stack') = Len(stack)
                   /\ Top'.ret = Top.ret \o retval.text
                   /\ Top'.found)
          /\ (pc = "ret" /\ via = "|" /\ ~Top.found /\ ~retval.found
                => /\ pc' = "ret"
                   /\ Len(stack') = Len(stack) - 1
                   /\ retval' = [text |-> <<>>, found |-> FALSE])]_vars

C2_Witness ==
    /\ Done
    /\ instr = FallbackFormat
    /\ result = [text |-> <<"X">>, found |-> TRUE]

\* C3: at every "&" the sub-parse's text is appended only if the scope's flag
\* before the "&" and the sub-parse's flag are both true, and the scope stays
\* found; otherwise the scope returns ('', false) at once.
\* render("[%a%]&[%b%]") with a = "1" and b empty is ("", false).
C3_Conjunction ==
    /\ [](Done /\ instr = ConjFormat /\ Val(<<"a">>) = <<"1">> /\ Val(<<"b">>) = <<>>
            => result = [text |-> <<>>, found |-> FALSE])
    /\ [][/\ (Running /\ Char = "&"
                => /\ Len(stack') = Len(stack) + 1
                   /\ Top'.found = Top.found
                   /\ Top'.ret = <<>>
                   /\ pos' = pos + 1)
          /\ (pc = "ret" /\ via = "&" /\ Top.found /\ retval.found
                => /\ pc' = "run"
                   /\ Len(stack') = Len(stack)
                   /\ Top'.ret = Top.ret \o retval.text
                   /\ Top'.found)
          /\ (pc = "ret" /\ via = "&" /\ ~(Top.found /\ retval.found)
                => /\ pc' = "ret"
                   /\ Len(stack') = Len(stack) - 1
                   /\ retval' = [text |-> <<>>, found |-> FALSE])]_vars

C3_Witness ==
    /\ Done
    /\ instr = ConjFormat
    /\ Val(<<"a">>) = <<"1">>
    /\ Val(<<"b">>) = <<>>
    /\ result = [text |-> <<>>, found |-> FALSE]

\* C4: every render returns and none reaches an error state; every loop step
\* and every recursive call consumes at least one character of the stream;
\* render("[%a%") with a = "Z" returns ("Z", true).
C4_Terminates ==
    /\ [](pc # "error")
    /\ <>Done
    /\ [](Done /\ instr = UnclosedFormat /\ Val(<<"a">>) = <<"Z">>
            => result = [text |-> <<"Z">>, found |-> TRUE])
    /\ [][/\ (Running => pos' > pos)
          /\ (Len(stack') > Len(stack) => pos' > pos)]_vars

\* no placeholder marker, no operator and no bracket
NoMarkup(t) == \A i \in 1..Len(t) : t[i] \notin {"%", "{", "|", "&", "[", "]"}

\* nor an escape marker
Plain(t) == \A i \in 1..Len(t) : t[i] \notin Markers

\* C5 as stated: a template without placeholder markers, operators and
\* brackets is returned unchanged, with found true when it is non-empty and
\* false exactly when it is empty.
C5_Original ==
    Done /\ NoMarkup(instr) => result.text = instr /\ (result.found <=> instr # <<>>)

\* C5 amended: a template without placeholder markers, operators, brackets and
\* escape markers (# and \) is returned unchanged, and the returned flag is
\* true, for the empty template too.
C5_PlainText ==
    Done /\ Plain(instr) => result = [text |-> instr, found |-> TRUE]

C5_Witness == Done /\ Plain(instr) /\ Len(instr) >= 2 /\ result.text = instr

Sp == <<" ">>

\* C7: the documented format with a non-empty state: with a title the output
\* is "<state> <artist> - <title>" or, without artist, "<state> <title>";
\* without title and with a file it is "<state> <file>".
C7_DocFormat ==
    Done /\ instr = DocFormat /\ Val(KeyState) # <<>> =>
        /\ (Val(KeyTitle) # <<>> /\ Val(KeyArtist) # <<>> =>
                result.text = Val(KeyState) \o Sp \o Val(KeyArtist) \o <<" ", "-", " ">>
                              \o Val(KeyTitle))
        /\ (Val(KeyTitle) # <<>> /\ Val(KeyArtist) = <<>> =>
                result.text = Val(KeyState) \o Sp \o Val(KeyTitle))
        /\ (Val(KeyTitle) = <<>> /\ Val(KeyFile) # <<>> =>
                result.text = Val(KeyState) \o Sp \o Val(KeyFile))

C7_Witness ==
    /\ Done
    /\ instr = DocFormat
    /\ Val(KeyArtist) # <<>>
    /\ Val(KeyTitle) = <<>>
    /\ Val(KeyFile) # <<>>
    /\ result.text = Val(KeyState) \o Sp \o Val(KeyFile)

\* C9: in a scope that has met no "|" or "&" the flag equals the outcome of
\* the last placeholder or group evaluated there (the inherited flag if none),
\* and the scope returns that flag; literal characters and escapes leave the
\* flag alone; render("%a%%b%") with a = "1" and b empty is ("1", false).
C9_LastDecides ==
    /\ [](\A i \in 1..Len(stack) : ~stack[i].met => stack[i].found = stack[i].last)
    /\ [](Done /\ instr = SiblingsFormat /\ Val(<<"a">>) = <<"1">> /\ Val(<<"b">>) = <<>>
            => result = [text |-> <<"1">>, found |-> FALSE])
    /\ [][/\ (Returns /\ ~Top.met => retval'.found = Top.last)
          /\ (Running /\ Char \notin {"%", "{", "[", "]", "|", "&"}
                => Len(stack') = Len(stack) /\ Top'.found = Top.found)]_vars

C9_Witness ==
    /\ Done
    /\ instr = SiblingsFormat
    /\ Val(<<"a">>) = <<"1">>
    /\ Val(<<"b">>) = <<>>
    /\ result = [text |-> <<"1">>, found |-> FALSE]

\* "[" minus "]" among the first i characters
NestingAt(t, i) ==
    Cardinality({j \in 1..i : t[j] = "["}) - Cardinality({j \in 1..i : t[j] = "]"})

\* the maximum nesting depth of "[" and "]" in the template
MaxNesting(t) ==
    LET D == {NestingAt(t, i) : i \in 0..Len(t)}
    IN  CHOOSE m \in D : \A d \in D : d <= m

\* C10 as stated: the active invocations number at most one more than the
\* maximum "["/"]" nesting depth of the template.
C10_Original == Len(stack) <= 1 + MaxNesting(instr)

\* C10 amended: the active invocations number at most one more than the
\* number of "[", "|" and "&" characters of the template: each of the three
\* starts a nested invocation.
C10_DepthBound == Len(stack) <= 1 + Count(instr, {"[", "|", "&"})

C10_Witness == Len(stack) >= 3 /\ Count(instr, {"["}) = 0

-----------------------------------------------------------------------------
(* Properties of song_attr and current_track *)

\* what the field reads is absent or invalid
NoData ==
    CASE attr = "time" ->
            ~("time" \in DOMAIN song /\ IntOk(song["time"]) /\ IntVal(song["time"]) > 0)
      [] attr = "position" -> ~("pos" \in DOMAIN song /\ IntOk(song["pos"]))
      [] attr \in {"mtime", "mdate"} ->
            ~("last-modified" \in DOMAIN song /\ parse_mtime(song["last-modified"]).ok)
      [] OTHER -> attr \notin DOMAIN song

\* C6: song_attr returns a text and never raises; when the data the field
\* needs is absent or invalid it returns the empty text.
C6_NeverRaises ==
    attr_out.kind \notin {"call", "idle"} =>
        /\ attr_out.kind = "return"
        /\ (NoData => attr_out.val = <<>>)

\* C8: after every call the returned full_text is at most max_width long; a
\* longer text is cut to a leading part followed by "...", a text that fits
\* is returned unchanged.
C8_WithinWidth ==
    calls > 0 =>
        /\ Len(response.full_text) <= max_width
        /\ (Len(text) > max_width =>
                \E k \in 0..Len(text) : response.full_text = SubSeq(text, 1, k) \o Ellipsis)
        /\ (Len(text) <= max_width => response.full_text = text)

====
